---- MODULE Spec2Model ----
(***************************************************************************)
(* Model of VCFToVariation (lib/VariationUtil/Util/VCFToVariation.py):     *)
(* the import_vcf pipeline -- version detection, validator dispatch and    *)
(* output interpretation, streaming aggregation of the records, the two    *)
(* cross-validation checks, checksum-verified construction and the save.   *)
(*                                                                         *)
(* Python strings that the code inspects (the first line of the file, the  *)
(* validator's output lines, identifiers) are sequences of one-character   *)
(* strings, so that split, strip, slicing, startswith, upper and float are *)
(* computed as Python computes them.  Decimal versions are integers scaled *)
(* by Scale (4.1 is 4100).                                                 *)
(***************************************************************************)
EXTENDS Integers, Sequences, FiniteSets, TLC

\* ------------------------------------------------------------------------
\* Bounds of the model
\* ------------------------------------------------------------------------
MaxOutLines == 3    \* lines a validator process emits
MaxRecords == 3     \* variant records in the file
MaxIds == 2         \* ids in an external id set, genotype columns in the file

\* ------------------------------------------------------------------------
\* Python string primitives
\* ------------------------------------------------------------------------
Whitespace == {" ", "\n", "\t", "\r"}

Digits == {"0", "1", "2", "3", "4", "5", "6", "7", "8", "9"}

DigitValue(c) ==
    CASE c = "0" -> 0 [] c = "1" -> 1 [] c = "2" -> 2 [] c = "3" -> 3
      [] c = "4" -> 4 [] c = "5" -> 5 [] c = "6" -> 6 [] c = "7" -> 7
      [] c = "8" -> 8 [] c = "9" -> 9

\* s[:n]
Take(s, n) == SubSeq(s, 1, IF n < Len(s) THEN n ELSE Len(s))

\* s[n:]
Drop(s, n) == IF n >= Len(s) THEN <<>> ELSE SubSeq(s, n + 1, Len(s))

\* s[-n:]
TakeLast(s, n) == IF n >= Len(s) THEN s ELSE SubSeq(s, Len(s) - n + 1, Len(s))

\* s.startswith(prefix)
StartsWith(s, prefix) == Len(s) >= Len(prefix) /\ SubSeq(s, 1, Len(prefix)) = prefix

RECURSIVE LStrip(_, _)
LStrip(s, chars) ==
    IF s # <<>> /\ Head(s) \in chars THEN LStrip(Tail(s), chars) ELSE s

RECURSIVE RStrip(_, _)
RStrip(s, chars) ==
    IF s # <<>> /\ s[Len(s)] \in chars THEN RStrip(SubSeq(s, 1, Len(s) - 1), chars) ELSE s

\* s.strip(chars); s.strip() is Strip(s, Whitespace)
Strip(s, chars) == LStrip(RStrip(s, chars), chars)

\* s.split(sep) for a one-character separator: always at least one token
RECURSIVE Split(_, _)
Split(s, sep) ==
    IF \A i \in 1..Len(s) : s[i] # sep
    THEN <<s>>
    ELSE LET k == CHOOSE i \in 1..Len(s) : s[i] = sep /\ \A j \in 1..(i - 1) : s[j] # sep
         IN  <<SubSeq(s, 1, k - 1)>> \o Split(Drop(s, k), sep)

\* ''.join(parts)
RECURSIVE Concat(_)
Concat(parts) == IF parts = <<>> THEN <<>> ELSE Head(parts) \o Concat(Tail(parts))

\* '\n'.join(parts)
RECURSIVE JoinLines(_)
JoinLines(parts) ==
    IF parts = <<>> THEN <<>>
    ELSE IF Len(parts) = 1 THEN Head(parts)
    ELSE Head(parts) \o <<"\n">> \o JoinLines(Tail(parts))

LowerCase == <<"a","b","c","d","e","f","g","h","i","j","k","l","m",
               "n","o","p","q","r","s","t","u","v","w","x","y","z">>

UpperCase == <<"A","B","C","D","E","F","G","H","I","J","K","L","M",
               "N","O","P","Q","R","S","T","U","V","W","X","Y","Z">>

\* s.upper()
Upper(s) ==
    [i \in 1..Len(s) |->
        IF \E k \in 1..26 : LowerCase[k] = s[i]
        THEN UpperCase[CHOOSE k \in 1..26 : LowerCase[k] = s[i]]
        ELSE s[i]]

Scale == 1000

RECURSIVE Pow10(_)
Pow10(n) == IF n = 0 THEN 1 ELSE 10 * Pow10(n - 1)

RECURSIVE DigitsValue(_)
DigitsValue(ds) ==
    IF ds = <<>> THEN 0 ELSE 10 * DigitsValue(SubSeq(ds, 1, Len(ds) - 1)) + DigitValue(ds[Len(ds)])

\* float(s) accepts surrounding whitespace and, over the characters used
\* here, digits with at most one '.' and at least one digit.
FloatOk(s) ==
    LET t == Strip(s, Whitespace)
    IN  /\ \A i \in 1..Len(t) : t[i] \in Digits \cup {"."}
        /\ Cardinality({i \in 1..Len(t) : t[i] = "."}) <= 1
        /\ \E i \in 1..Len(t) : t[i] \in Digits

\* float(s) times Scale, for s with FloatOk(s) and at most three decimals
FloatValue(s) ==
    LET t == Strip(s, Whitespace)
        parts == Split(t, ".")
        frac == IF Len(parts) > 1 THEN parts[2] ELSE <<>>
    IN  DigitsValue(parts[1]) * Scale + DigitsValue(frac) * Pow10(3 - Len(frac))

\* ------------------------------------------------------------------------
\* Exceptions
\* ------------------------------------------------------------------------
\* kind is the exception class, msg its fixed message and text the variable
\* part of the message (a path, the validator output)
NoError == [kind |-> "", text |-> <<>>, msg |-> ""]

Raise(kind, text, msg) == [kind |-> kind, text |-> text, msg |-> msg]

\* ------------------------------------------------------------------------
\* _get_vcf_version
\* ------------------------------------------------------------------------
FileformatToken == <<"#","#","f","i","l","e","f","o","r","m","a","t">>

NoVersion == -1

GetVcfVersion(line) ==
    LET tokens == Split(line, "=")
    IN  IF ~StartsWith(tokens[1], FileformatToken)
        THEN [error |-> Raise("ValueError", <<>>, "Invalid VCF.  ##fileformat line in meta is improperly formatted."),
              version |-> NoVersion]
        ELSE IF Len(tokens) < 2
        THEN [error |-> Raise("IndexError", <<>>, "list index out of range"),
              version |-> NoVersion]
        ELSE LET text == RStrip(TakeLast(tokens[2], 4), Whitespace)
             IN  IF ~FloatOk(text)
                 THEN [error |-> Raise("ValueError", text, "could not convert string to float"),
                       version |-> NoVersion]
                 ELSE [error |-> NoError, version |-> FloatValue(text)]

\* ------------------------------------------------------------------------
\* Inputs: the first line of the VCF file
\* ------------------------------------------------------------------------
ChromToken == <<"#","C","H","R","O","M">>

VersionValues ==
    { <<>>,
      <<"V","C","F","v","4",".","0">>, <<"V","C","F","v","4",".","1">>,
      <<"V","C","F","v","4",".","2">>, <<"V","C","F","v","4",".","3">>,
      <<"V","C","F","v","3",".","9">>, <<"V","C","F","v","X",".","Y">> }

FirstLines ==
    { prefix \o eq \o value \o end :
        prefix \in {<<>>, FileformatToken, ChromToken},
        eq \in {<<>>, <<"=">>},
        value \in VersionValues,
        end \in {<<>>, <<"\n">>} }

\* ------------------------------------------------------------------------
\* Inputs: the lines a validator process can emit
\* ------------------------------------------------------------------------
InfoMarker == <<"[","i","n","f","o","]">>

IsValid == <<"i","s","v","a","l","i","d">>

ReportPath == <<"/","r",".","t","x","t">>

\* validation_output_dir/vcf_validation.txt
DefaultReport == <<"/","v","/","v","c","f","_","v","a","l","i","d","a","t","i","o","n",".","t","x","t">>

LineReading == <<"[","i","n","f","o","]"," ","R","e","a","d","i","n","g"," ","f","r","o","m"," ","i","n","p","u","t"," ","f","i","l","e",".",".",".","\n">>

LineSummary == <<"[","i","n","f","o","]"," ","S","u","m","m","a","r","y"," ","r","e","p","o","r","t"," ","w","r","i","t","t","e","n"," ","t","o"," ",":"," ","/","r",".","t","x","t","\n">>

LineValid == <<"[","i","n","f","o","]"," ","A","c","c","o","r","d","i","n","g"," ","t","o"," ","t","h","e"," ","V","C","F"," ","s","p","e","c","i","f","i","c","a","t","i","o","n",","," ","t","h","e"," ","i","n","p","u","t"," ","f","i","l","e"," ","i","s"," ","v","a","l","i","d","\n">>

LineNotValid == <<"[","i","n","f","o","]"," ","A","c","c","o","r","d","i","n","g"," ","t","o"," ","t","h","e"," ","V","C","F"," ","s","p","e","c","i","f","i","c","a","t","i","o","n",","," ","t","h","e"," ","i","n","p","u","t"," ","f","i","l","e"," ","i","s"," ","n","o","t"," ","v","a","l","i","d","\n">>

LineDiagnostic == <<"E","x","p","e","c","t","e","d"," ","k","e","y","=","v","a","l","u","e"," ","p","a","i","r"," ","i","n"," ","t","h","e"," ","h","e","a","d","e","r","\n">>

LineIndented == <<" ","[","i","n","f","o","]"," ","p","a","d","d","e","d","\n">>

OutputLines == {LineReading, LineSummary, LineValid, LineNotValid, LineDiagnostic, LineIndented}

RECURSIVE SeqsUpTo(_, _)
SeqsUpTo(S, n) ==
    IF n = 0 THEN {<<>>}
    ELSE LET shorter == SeqsUpTo(S, n - 1)
         IN  shorter \cup {Append(q, x) : q \in shorter, x \in S}

ProcessOutputs == SeqsUpTo(OutputLines, MaxOutLines)

\* ------------------------------------------------------------------------
\* State
\* ------------------------------------------------------------------------
VARIABLES
    pc,                          \* position of the run inside import_vcf
    vcf_first_line,              \* first line of the staged VCF file
    files,                       \* report files on disk: path -> content
    vcf_version,                 \* validate_vcf: detected version
    validator_cmd,               \* validate_vcf: command line of the subprocess
    p_stdout,                    \* validate_vcf: the subprocess' output stream
    p_read,                      \* validate_vcf: lines of p_stdout read so far
    validator_output,            \* validate_vcf: retained lines
    validation_output_filename,  \* validate_vcf: report path
    file_valid_result,           \* import_vcf: value validate_vcf returned
    version,                     \* _parse_vcf_data: version read from the metadata
    genotypes,                   \* _parse_vcf_data: reader.samples
    chromosomes,                 \* _parse_vcf_data: contig ids, first-seen order
    contigs,                     \* _parse_vcf_data: contig entries, insertion order
    totalvars,                   \* _parse_vcf_data: running total
    record,                      \* _parse_vcf_data: the record of the current iteration
    vcf_info,                    \* import_vcf: self.vcf_info
    assembly_chromosomes,        \* _validate_assembly_ids: contig ids of the assembly
    chk_assembly_ids,            \* _validate_assembly_ids: result of the check
    sample_ids,                  \* _validate_sample_ids: ids of the sample set
    validate_genotypes,          \* _validate_sample_ids: result of the check
    local_md5,                   \* _construct_variation: checksum computed locally
    vcf_shock_file_ref,          \* _construct_variation: answer of blob storage
    var,                         \* import_vcf: the Variation record
    saved,                       \* records handed to save_objects
    error                        \* exception that ended the run

validate_vars == <<vcf_version, validator_cmd, p_stdout, p_read, validator_output,
                   validation_output_filename>>

parse_vars == <<version, genotypes, chromosomes, contigs, totalvars, record>>

cross_vars == <<assembly_chromosomes, chk_assembly_ids, sample_ids, validate_genotypes>>

construct_vars == <<local_md5, vcf_shock_file_ref, var, saved>>

vars == <<pc, vcf_first_line, files, vcf_version, validator_cmd, p_stdout, p_read,
          validator_output, validation_output_filename, file_valid_result,
          version, genotypes, chromosomes, contigs, totalvars, record, vcf_info,
          assembly_chromosomes, chk_assembly_ids, sample_ids, validate_genotypes,
          local_md5, vcf_shock_file_ref, var, saved, error>>

NoPath == <<>>

NoFiles == [p \in {} |-> [kind |-> "", text |-> <<>>]]

NoVcfInfo ==
    [version |-> NoVersion, contigs |-> <<>>, total_variants |-> 0, genotype_ids |-> <<>>,
     chromosome_ids |-> <<>>, file_ref |-> "", assembly_ref |-> ""]

\* no record read
NoRecord ==
    [CHROM |-> <<>>, FILTER |-> [is_none |-> TRUE, names |-> <<>>],
     affected_start |-> 0, affected_end |-> 0]

\* a check that has not run
NoCheck == [all_found |-> TRUE, not_found |-> <<>>]

NoShockRef == [shock_id |-> "", handle |-> [hid |-> "", remote_md5 |-> ""]]

NoVariation ==
    [numgenotypes |-> 0, numvariants |-> 0, contigs |-> <<>>, population |-> "",
     genome_ref |-> "", assemby_ref |-> "", vcf_handle_ref |-> "",
     vcf_handle |-> [hid |-> "", remote_md5 |-> ""]]

\* open(path, 'w') followed by the writes
WriteFile(fs, path, content) ==
    [p \in (DOMAIN fs) \cup {path} |-> IF p = path THEN content ELSE fs[p]]

\* os.path.exists(path)
Exists(fs, path) == path \in DOMAIN fs

Init ==
    /\ pc = "validate_vcf"
    /\ vcf_first_line \in FirstLines
    /\ files = NoFiles
    /\ vcf_version = NoVersion
    /\ validator_cmd = <<>>
    /\ p_stdout = <<>>
    /\ p_read = 0
    /\ validator_output = <<>>
    /\ validation_output_filename = NoPath
    /\ file_valid_result = NoPath
    /\ version = NoVersion
    /\ genotypes = <<>>
    /\ chromosomes = <<>>
    /\ contigs = <<>>
    /\ totalvars = 0
    /\ record = NoRecord
    /\ vcf_info = NoVcfInfo
    /\ assembly_chromosomes = {}
    /\ chk_assembly_ids = NoCheck
    /\ sample_ids = {}
    /\ validate_genotypes = NoCheck
    /\ local_md5 = ""
    /\ vcf_shock_file_ref = NoShockRef
    /\ var = NoVariation
    /\ saved = <<>>
    /\ error = NoError

\* ------------------------------------------------------------------------
\* _stage_input
\* ------------------------------------------------------------------------
StageInput(exists) ==
    IF ~exists
    THEN Raise("OSError", <<>>, "VCF input path does not exist, or is not readable")
    ELSE NoError

\* ------------------------------------------------------------------------
\* validate_vcf
\* ------------------------------------------------------------------------
\* lines 146-148: stage the input and detect the version
ValidateStart ==
    /\ pc = "validate_vcf"
    /\ \E exists \in BOOLEAN :
         LET staged == StageInput(exists)
             got == GetVcfVersion(vcf_first_line)
         IN  IF staged # NoError
             THEN /\ error' = staged
                  /\ pc' = "raised"
                  /\ UNCHANGED vcf_version
             ELSE IF got.error # NoError
             THEN /\ error' = got.error
                  /\ pc' = "raised"
                  /\ UNCHANGED vcf_version
             ELSE /\ vcf_version' = got.version
                  /\ pc' = "dispatch"
                  /\ UNCHANGED error
    /\ UNCHANGED <<vcf_first_line, files, validator_cmd, p_stdout, p_read, validator_output,
                   validation_output_filename, file_valid_result, vcf_info>>
    /\ UNCHANGED <<parse_vars, cross_vars, construct_vars>>

\* the dispatch with the boundary 4.1 sent to the legacy validator
ValidatorCmd_Strict41(v) ==
    IF v > 4100
    THEN <<"vcf_validator_linux", "-i", "vcf_filepath", "-l", "error">>
    ELSE IF v >= 4000
    THEN <<"vcf-validator", "vcf_filepath">>
    ELSE <<>>

\* lines 162-178: the command line for the detected version, <<>> when none
ValidatorCmd(v) ==
    IF v >= 4100
    THEN <<"vcf_validator_linux", "-i", "vcf_filepath", "-l", "error">>
    ELSE IF v >= 4000
    THEN <<"vcf-validator", "vcf_filepath">>
    ELSE <<>>

\* lines 162-186: select the validator and start it; the process' output and
\* whether it leaves its own report behind are the environment's choice
ValidateDispatch ==
    /\ pc = "dispatch"
    /\ LET cmd == ValidatorCmd(vcf_version)
       IN  IF cmd = <<>>
           THEN /\ error' = Raise("ValueError", <<>>, "VCF Version not in file, or fileformat line malformatted, or not version >=4.0.")
                /\ pc' = "raised"
                /\ UNCHANGED <<validator_cmd, p_stdout, files>>
           ELSE /\ validator_cmd' = cmd
                /\ p_stdout' \in ProcessOutputs
                /\ \E wrote \in BOOLEAN :
                     files' = IF wrote /\ cmd[1] = "vcf_validator_linux"
                              THEN WriteFile(files, ReportPath, [kind |-> "validator", text |-> <<>>])
                              ELSE files
                /\ pc' = "read"
                /\ UNCHANGED error
    /\ UNCHANGED <<vcf_first_line, vcf_version, p_read, validator_output,
                   validation_output_filename, file_valid_result, vcf_info>>
    /\ UNCHANGED <<parse_vars, cross_vars, construct_vars>>

\* lines 193-194: only lines whose stripped text starts with [info] are kept
Retained(line) == StartsWith(Strip(line, Whitespace), InfoMarker)

\* lines 189-194: one iteration of the read loop
ValidateReadLine ==
    /\ pc = "read"
    /\ p_read < Len(p_stdout)
    /\ LET line == p_stdout[p_read + 1]
       IN  /\ p_read' = p_read + 1
           /\ validator_output' = IF Retained(line) THEN Append(validator_output, line)
                                  ELSE validator_output
    /\ UNCHANGED <<pc, vcf_first_line, files, vcf_version, validator_cmd, p_stdout,
                   validation_output_filename, file_valid_result, vcf_info, error>>
    /\ UNCHANGED <<parse_vars, cross_vars, construct_vars>>

\* lines 191-198: end of stream, p.wait(), the default report path
ValidateReadEnd ==
    /\ pc = "read"
    /\ p_read = Len(p_stdout)
    /\ validation_output_filename' = DefaultReport
    /\ pc' = "interpret"
    /\ UNCHANGED <<vcf_first_line, files, vcf_version, validator_cmd, p_stdout, p_read,
                   validator_output, file_valid_result, vcf_info, error>>
    /\ UNCHANGED <<parse_vars, cross_vars, construct_vars>>

\* the detail built with ''.join instead of '\n'.join
OutputError_NoSeparator(vo) == Raise("ValueError", Concat(vo), "")

\* '\n'.join(validator_output) as the detail of the ValueError of lines 213, 223, 238
OutputError(vo) == Raise("ValueError", JoinLines(vo), "")

\* lines 218-223 and 233-238 (captured lines) or 225-227 and 240-242 (the
\* synthesized note): the report written at path, and the exception if any
FallbackReport(vo, path, fs) ==
    IF vo # <<>>
    THEN [error |-> OutputError(vo), filename |-> path,
          files |-> WriteFile(fs, path, [kind |-> "captured", text |-> Concat(vo)])]
    ELSE [error |-> NoError, filename |-> path,
          files |-> WriteFile(fs, path, [kind |-> "validated as of spec v4.0", text |-> <<>>])]

\* line 204: the report path named in the second retained line
NamedReport(vo) == Strip(Split(vo[2], " ")[7], {"\n"})

\* lines 205-206: the status token of the third retained line
StatusToken(vo) == Strip(Concat(Drop(Split(vo[3], " "), 9)), {"\n"})

\* lines 201-242: the try block with its IndexError handler
InterpretOutput(vo, path, fs) ==
    IF vo = <<>>
    THEN \* validator_output[0] raises IndexError
         FallbackReport(vo, path, fs)
    ELSE IF Take(vo[1], 6) = InfoMarker
    THEN IF Len(vo) < 2 \/ Len(Split(vo[2], " ")) < 7
         THEN \* line 204 raises IndexError before the assignment
              FallbackReport(vo, path, fs)
         ELSE LET named == NamedReport(vo)
              IN  IF Len(vo) < 3
                  THEN \* line 205 raises IndexError after the assignment
                       FallbackReport(vo, named, fs)
                  ELSE LET file_output_chk == StatusToken(vo)
                       IN  IF ~Exists(fs, named)
                           THEN [error |-> Raise("ValueError", named, " does not exist!"),
                                 filename |-> named, files |-> fs]
                           ELSE IF file_output_chk # IsValid
                           THEN [error |-> OutputError(vo), filename |-> named, files |-> fs]
                           ELSE [error |-> NoError, filename |-> named, files |-> fs]
    ELSE FallbackReport(vo, path, fs)

\* lines 201-252: interpret the retained output, require a report, return
ValidateInterpret ==
    /\ pc = "interpret"
    /\ LET r == InterpretOutput(validator_output, validation_output_filename, files)
       IN  /\ validation_output_filename' = r.filename
           /\ files' = r.files
           /\ IF r.error # NoError
              THEN /\ error' = r.error
                   /\ pc' = "raised"
                   /\ UNCHANGED file_valid_result
              ELSE IF ~Exists(r.files, r.filename)
              THEN /\ error' = Raise("SystemError", <<>>, "Validator did not generate a log file.")
                   /\ pc' = "raised"
                   /\ UNCHANGED file_valid_result
              ELSE /\ file_valid_result' = r.filename
                   /\ pc' = "parse"
                   /\ UNCHANGED error
    /\ UNCHANGED <<vcf_first_line, vcf_version, validator_cmd, p_stdout, p_read,
                   validator_output, vcf_info>>
    /\ UNCHANGED <<parse_vars, cross_vars, construct_vars>>

\* ------------------------------------------------------------------------
\* Inputs: records, genotype columns, external id sets
\* ------------------------------------------------------------------------
ChromIds == { <<"C","h","r","1">>, <<"2">> }

\* record.FILTER: None for '.', [] for PASS, the failed filters otherwise
FilterValues ==
    { [is_none |-> TRUE, names |-> <<>>],
      [is_none |-> FALSE, names |-> <<>>],
      [is_none |-> FALSE, names |-> <<"q10">>] }

Records ==
    [CHROM : ChromIds, FILTER : FilterValues, affected_start : {100}, affected_end : {101}]

GenotypeIds == { <<"S","a","m","p","l","e","_","X">>, <<"b">> }

GenotypeLists == SeqsUpTo(GenotypeIds, MaxIds)

AssemblyIdPool == { <<"c","h","r","1">>, <<"C","h","r","1">> }

AssemblyIdSets == { S \in SUBSET AssemblyIdPool : Cardinality(S) <= MaxIds }

SampleIdPool == { <<"s","a","m","p","l","e","_","x">>, <<" ","B"," ">> }

SampleIdSets == { S \in SUBSET SampleIdPool : Cardinality(S) <= MaxIds }

\* ------------------------------------------------------------------------
\* _parse_vcf_data
\* ------------------------------------------------------------------------
\* reader.metadata['fileformat']: the text after the first '=' without the
\* surrounding whitespace
Fileformat(line) ==
    LET tokens == Split(line, "=")
    IN  IF Len(tokens) < 2 THEN <<>> ELSE Strip(tokens[2], Whitespace)

\* lines 55-64: stage the input, open the reader, read the header; the locals
\* of validate_vcf are gone
ParseOpen ==
    /\ pc = "parse"
    /\ \E exists \in BOOLEAN, samples \in GenotypeLists :
         LET staged == StageInput(exists)
             text == SubSeq(Fileformat(vcf_first_line), 5, 6)
         IN  IF staged # NoError
             THEN /\ error' = staged
                  /\ pc' = "raised"
                  /\ UNCHANGED <<version, genotypes>>
             ELSE IF ~FloatOk(text)
             THEN /\ error' = Raise("ValueError", text, "could not convert string to float")
                  /\ pc' = "raised"
                  /\ UNCHANGED <<version, genotypes>>
             ELSE /\ version' = FloatValue(text)
                  /\ genotypes' = samples
                  /\ pc' = "parse_records"
                  /\ UNCHANGED error
    /\ vcf_version' = NoVersion
    /\ validator_cmd' = <<>>
    /\ p_stdout' = <<>>
    /\ p_read' = 0
    /\ validator_output' = <<>>
    /\ validation_output_filename' = NoPath
    /\ UNCHANGED <<vcf_first_line, files, file_valid_result, chromosomes, contigs, totalvars,
                   record, vcf_info>>
    /\ UNCHANGED <<cross_vars, construct_vars>>

\* not record.FILTER
FilterEmpty(r) == r.FILTER.is_none \/ r.FILTER.names = <<>>

\* record.CHROM in contigs.keys()
HasContig(cs, chrom) == \E i \in 1..Len(cs) : cs[i].contig_id = chrom

\* the update that forgets to count a record of a contig seen before
AddRecord_NoRecount(cs, r) ==
    IF ~HasContig(cs, r.CHROM)
    THEN Append(cs, [contig_id |-> r.CHROM,
                     totalvariants |-> 1,
                     passvariants |-> IF FilterEmpty(r) THEN 1 ELSE 0,
                     length |-> r.affected_end - r.affected_start])
    ELSE [i \in 1..Len(cs) |->
            IF cs[i].contig_id = r.CHROM
            THEN [cs[i] EXCEPT !.passvariants = IF FilterEmpty(r) THEN @ + 1 ELSE @]
            ELSE cs[i]]

\* the update that counts every record of a contig seen before as passed
AddRecord_AlwaysPass(cs, r) ==
    IF ~HasContig(cs, r.CHROM)
    THEN Append(cs, [contig_id |-> r.CHROM,
                     totalvariants |-> 1,
                     passvariants |-> IF FilterEmpty(r) THEN 1 ELSE 0,
                     length |-> r.affected_end - r.affected_start])
    ELSE [i \in 1..Len(cs) |->
            IF cs[i].contig_id = r.CHROM
            THEN [cs[i] EXCEPT !.totalvariants = @ + 1, !.passvariants = @ + 1]
            ELSE cs[i]]

\* lines 71-83: the contig entries after one record
AddRecord(cs, r) ==
    IF ~HasContig(cs, r.CHROM)
    THEN Append(cs, [contig_id |-> r.CHROM,
                     totalvariants |-> 1,
                     passvariants |-> IF FilterEmpty(r) THEN 1 ELSE 0,
                     length |-> r.affected_end - r.affected_start])
    ELSE [i \in 1..Len(cs) |->
            IF cs[i].contig_id = r.CHROM
            THEN [cs[i] EXCEPT !.totalvariants = @ + 1,
                               !.passvariants = IF FilterEmpty(r) THEN @ + 1 ELSE @]
            ELSE cs[i]]

\* lines 66-83: one iteration of the record loop
ParseRecord ==
    /\ pc = "parse_records"
    /\ totalvars < MaxRecords
    /\ \E r \in Records :
         /\ record' = r
         /\ totalvars' = totalvars + 1
         /\ chromosomes' = IF \E i \in 1..Len(chromosomes) : chromosomes[i] = r.CHROM
                           THEN chromosomes
                           ELSE Append(chromosomes, r.CHROM)
         /\ contigs' = AddRecord(contigs, r)
    /\ UNCHANGED <<pc, vcf_first_line, files, file_valid_result, version, genotypes, vcf_info,
                   error>>
    /\ UNCHANGED <<validate_vars, cross_vars, construct_vars>>

\* lines 85-94 and 478: end of the records, self.vcf_info is set
ParseEnd ==
    /\ pc = "parse_records"
    /\ vcf_info' = [version |-> version, contigs |-> contigs, total_variants |-> totalvars,
                    genotype_ids |-> genotypes, chromosome_ids |-> chromosomes,
                    file_ref |-> "vcf_filepath", assembly_ref |-> ""]
    /\ version' = NoVersion
    /\ genotypes' = <<>>
    /\ chromosomes' = <<>>
    /\ contigs' = <<>>
    /\ totalvars' = 0
    /\ record' = NoRecord
    /\ pc' = "validate_assembly"
    /\ UNCHANGED <<vcf_first_line, files, file_valid_result, error>>
    /\ UNCHANGED <<validate_vars, cross_vars, construct_vars>>

\* ------------------------------------------------------------------------
\* Cross-validation
\* ------------------------------------------------------------------------
\* the value both checks return: True, or the list of ids not found
CheckResult(not_found) == [all_found |-> not_found = <<>>, not_found |-> not_found]

\* x.upper().strip()
Normalize(x) == Strip(Upper(x), Whitespace)

\* _validate_vcf_to_sample
ValidateVcfToSample(vcf_genotypes, sids) ==
    LET vgenotypes == [i \in 1..Len(vcf_genotypes) |-> Normalize(vcf_genotypes[i])]
        normalized == {Normalize(x) : x \in sids}
        NotFound(geno) == geno \notin normalized
    IN  CheckResult(SelectSeq(vgenotypes, NotFound))

\* _chk_if_vcf_ids_in_assembly
ChkIfVcfIdsInAssembly(vcf_chromosomes, assembly_ids) ==
    LET NotFound(chromo) == chromo \notin assembly_ids
    IN  CheckResult(SelectSeq(vcf_chromosomes, NotFound))

\* the checks with the raise of lines 315 and 335 in force
CheckFailure_Strict(result) ==
    IF result.all_found
    THEN NoError
    ELSE Raise("ValueError", <<>>, "ids are not present")

\* the exception a failed check raises: none, the raise is commented out
\* (lines 313-316 and 333-336) and the ids are printed
CheckFailure(result) == NoError

\* lines 291-318 and 480
ValidateAssemblyIds ==
    /\ pc = "validate_assembly"
    /\ \E ids \in AssemblyIdSets :
         LET chk == ChkIfVcfIdsInAssembly(vcf_info.chromosome_ids, ids)
         IN  /\ vcf_info' = [vcf_info EXCEPT !.assembly_ref = "assembly_ref"]
             /\ assembly_chromosomes' = ids
             /\ chk_assembly_ids' = chk
             /\ IF CheckFailure(chk) # NoError
                THEN /\ error' = CheckFailure(chk)
                     /\ pc' = "raised"
                ELSE /\ pc' = "validate_sample"
                     /\ UNCHANGED error
    /\ UNCHANGED <<vcf_first_line, files, file_valid_result, sample_ids, validate_genotypes>>
    /\ UNCHANGED <<validate_vars, parse_vars, construct_vars>>

\* lines 320-338 and 482; the value of line 480 was discarded
ValidateSampleIds ==
    /\ pc = "validate_sample"
    /\ \E ids \in SampleIdSets :
         LET chk == ValidateVcfToSample(vcf_info.genotype_ids, ids)
         IN  /\ sample_ids' = ids
             /\ validate_genotypes' = chk
             /\ IF CheckFailure(chk) # NoError
                THEN /\ error' = CheckFailure(chk)
                     /\ pc' = "raised"
                ELSE /\ pc' = "construct"
                     /\ UNCHANGED error
    /\ assembly_chromosomes' = {}
    /\ chk_assembly_ids' = NoCheck
    /\ UNCHANGED <<vcf_first_line, files, file_valid_result, vcf_info>>
    /\ UNCHANGED <<validate_vars, parse_vars, construct_vars>>

\* ------------------------------------------------------------------------
\* _construct_contig_info, _construct_variation, _save_var_obj
\* ------------------------------------------------------------------------
\* md5_sum_local_file(self.original_file)
LocalMd5 == "md5-of-original"

\* what file_to_shock can answer
ShockAnswers ==
    [shock_id : {"", "shock-1"},
     handle : [hid : {"KBH_1"}, remote_md5 : {LocalMd5, "md5-of-other-bytes"}]]

\* lines 359-366
ConstructContigInfo(info) == info.contigs

\* the upload checks without the checksum comparison
UploadCheck_NoChecksum(md5, ref) ==
    IF ref.shock_id = ""
    THEN Raise("ValueError", <<>>, "Unable to upload VCF to Shock!")
    ELSE NoError

\* lines 413-417: the exception of the upload checks, NoError when they pass
UploadCheck(md5, ref) ==
    IF md5 # ref.handle.remote_md5
    THEN Raise("ValueError", <<>>, "Local md5 does not match shock md5")
    ELSE IF ref.shock_id = ""
    THEN Raise("ValueError", <<>>, "Unable to upload VCF to Shock!")
    ELSE NoError

\* lines 486-488 and 398-431; the value of line 482 was discarded
ConstructVariation ==
    /\ pc = "construct"
    /\ \E answer \in ShockAnswers :
         /\ vcf_shock_file_ref' = answer
         /\ local_md5' = LocalMd5
         /\ IF UploadCheck(LocalMd5, answer) # NoError
            THEN /\ error' = UploadCheck(LocalMd5, answer)
                 /\ pc' = "raised"
                 /\ UNCHANGED var
            ELSE /\ var' = [numgenotypes |-> Len(vcf_info.genotype_ids),
                            numvariants |-> vcf_info.total_variants,
                            contigs |-> ConstructContigInfo(vcf_info),
                            population |-> "sample_attribute_ref",
                            genome_ref |-> "genome_ref",
                            assemby_ref |-> vcf_info.assembly_ref,
                            vcf_handle_ref |-> answer.handle.hid,
                            vcf_handle |-> answer.handle]
                 /\ pc' = "save"
                 /\ UNCHANGED error
    /\ sample_ids' = {}
    /\ validate_genotypes' = NoCheck
    /\ UNCHANGED <<vcf_first_line, files, file_valid_result, vcf_info, assembly_chromosomes,
                   chk_assembly_ids, saved>>
    /\ UNCHANGED <<validate_vars, parse_vars>>

\* lines 491 and 452-471
SaveVarObj ==
    /\ pc = "save"
    /\ IF var # NoVariation
       THEN /\ saved' = Append(saved, var)
            /\ pc' = "done"
            /\ UNCHANGED error
       ELSE /\ error' = Raise("ValueError", <<>>, "Variation object blank, cannot not save to workspace!")
            /\ pc' = "raised"
            /\ UNCHANGED saved
    /\ UNCHANGED <<vcf_first_line, files, file_valid_result, vcf_info, local_md5,
                   vcf_shock_file_ref, var>>
    /\ UNCHANGED <<validate_vars, parse_vars, cross_vars>>

Next ==
    \/ ValidateStart
    \/ ValidateDispatch
    \/ ValidateReadLine
    \/ ValidateReadEnd
    \/ ValidateInterpret
    \/ ParseOpen
    \/ ParseRecord
    \/ ParseEnd
    \/ ValidateAssemblyIds
    \/ ValidateSampleIds
    \/ ConstructVariation
    \/ SaveVarObj

Spec == Init /\ [][Next]_vars

\* ========================================================================
\* Properties
\* ========================================================================
ValidatorA == <<"vcf_validator_linux", "-i", "vcf_filepath", "-l", "error">>

ValidatorB == <<"vcf-validator", "vcf_filepath">>

\* validate_vcf has interpreted the validator's output: it returned (the run
\* is about to parse) or raised, and its locals are still in the state
Interpreted == validator_cmd # <<>> /\ pc \in {"parse", "raised"}

Returned == validator_cmd # <<>> /\ pc = "parse"

Line(value) == FileformatToken \o <<"=">> \o value \o <<"\n">>

\* C1: when validator B emitted output and none of its lines carries the info
\* marker, validate_vcf has written the captured lines to the fallback report
\* and failed with that output as the detail; it has not returned a path.
C1_ValidatorBDiagnosticsFail ==
    (/\ Interpreted
     /\ validator_cmd = ValidatorB
     /\ p_stdout # <<>>
     /\ \A i \in 1..Len(p_stdout) : ~StartsWith(Strip(p_stdout[i], Whitespace), InfoMarker))
    => /\ pc = "raised"
       /\ error.kind = "ValueError"
       /\ error.text = JoinLines(p_stdout)
       /\ Exists(files, DefaultReport)
       /\ files[DefaultReport] = [kind |-> "captured", text |-> Concat(p_stdout)]

\* C2: the validator is selected from the detected version alone: validator A
\* with log level 'error' for every version >= 4.1, validator B for every
\* version in [4.0, 4.1), and for a version < 4.0 the version error without any
\* subprocess; a file declaring 4.0 selects B, 4.1 selects A, 3.9 raises.
C2_DispatchByVersion ==
    (vcf_version # NoVersion /\ pc # "dispatch")
    => /\ vcf_version >= 4100 => validator_cmd = ValidatorA
       /\ (vcf_version >= 4000 /\ vcf_version < 4100) => validator_cmd = ValidatorB
       /\ vcf_version < 4000 =>
            /\ pc = "raised"
            /\ error.kind = "ValueError"
            /\ validator_cmd = <<>>
            /\ p_stdout = <<>>
       /\ vcf_first_line = Line(<<"V","C","F","v","4",".","0">>) => validator_cmd = ValidatorB
       /\ vcf_first_line = Line(<<"V","C","F","v","4",".","1">>) => validator_cmd = ValidatorA
       /\ vcf_first_line = Line(<<"V","C","F","v","3",".","9">>) => pc = "raised"

\* C2 witness: a file declaring 4.1 has validator A running
C2_Witness ==
    /\ pc = "read"
    /\ vcf_first_line = Line(<<"V","C","F","v","4",".","1">>)
    /\ vcf_version = 4100
    /\ validator_cmd = ValidatorA

\* the retained output has validator A's shape and names a report and a status
ShapeA ==
    /\ Interpreted
    /\ Len(validator_output) >= 3
    /\ Take(validator_output[1], 6) = InfoMarker
    /\ Len(Split(validator_output[2], " ")) >= 7

\* C3 as stated: in the validator-A shape, a status token other than 'isvalid'
\* or a missing report file makes validate_vcf fail, and in both cases the
\* detail is the complete captured output.
C3_FailureDetailIsOutput ==
    (/\ ShapeA
     /\ \/ StatusToken(validator_output) # IsValid
        \/ ~Exists(files, NamedReport(validator_output)))
    => /\ pc = "raised"
       /\ error.kind = "ValueError"
       /\ error.text = JoinLines(validator_output)
       /\ error.msg = ""

\* C3 amended: in the validator-A shape, a status token other than 'isvalid'
\* or a missing report file makes validate_vcf fail; the detail is the retained
\* output joined by newlines when the named report exists, and the report path
\* followed by ' does not exist!' when it does not.
C3_FailureDetail ==
    (/\ ShapeA
     /\ \/ StatusToken(validator_output) # IsValid
        \/ ~Exists(files, NamedReport(validator_output)))
    => /\ pc = "raised"
       /\ error.kind = "ValueError"
       /\ IF Exists(files, NamedReport(validator_output))
          THEN error.text = JoinLines(validator_output) /\ error.msg = ""
          ELSE error.text = NamedReport(validator_output) /\ error.msg = " does not exist!"

\* C3 witness: validator A said 'is not valid' and its report exists
C3_Witness ==
    /\ ShapeA
    /\ pc = "raised"
    /\ StatusToken(validator_output) # IsValid
    /\ Exists(files, NamedReport(validator_output))
    /\ error.text = JoinLines(validator_output)

\* an id is among those a check reported as unresolved
Reported(id, result) ==
    \E k \in 1..Len(result.not_found) : Normalize(result.not_found[k]) = Normalize(id)

\* an id equals some id of the external set after case-folding and trimming
Resolves(id, external) == \E x \in external : Normalize(x) = Normalize(id)

\* C4: in both cross-validation checks a VCF id is reported unresolved if and
\* only if no id of the external set equals it after case-folding and
\* trimming both ids.
C4_ChecksCaseInsensitive ==
    /\ pc = "validate_sample" =>
         \A i \in 1..Len(vcf_info.chromosome_ids) :
            Reported(vcf_info.chromosome_ids[i], chk_assembly_ids)
            <=> ~Resolves(vcf_info.chromosome_ids[i], assembly_chromosomes)
    /\ pc = "construct" =>
         \A i \in 1..Len(vcf_info.genotype_ids) :
            Reported(vcf_info.genotype_ids[i], validate_genotypes)
            <=> ~Resolves(vcf_info.genotype_ids[i], sample_ids)

\* C5: the record is handed to save_objects only after validate_vcf returned,
\* parsing finished, the local checksum equalled the one blob storage reported
\* and a storage id was allocated; when the checksums differ, or the run
\* raised at any stage, save_objects has not been invoked.
C5_SaveOnlyAfterVerification ==
    /\ saved # <<>> =>
         /\ pc = "done"
         /\ saved = <<var>>
         /\ file_valid_result # NoPath
         /\ Exists(files, file_valid_result)
         /\ vcf_info.file_ref # ""
         /\ var.numvariants = vcf_info.total_variants
         /\ local_md5 = vcf_shock_file_ref.handle.remote_md5
         /\ vcf_shock_file_ref.shock_id # ""
    /\ pc = "raised" => saved = <<>>
    /\ (local_md5 # "" /\ local_md5 # vcf_shock_file_ref.handle.remote_md5) =>
         /\ pc = "raised"
         /\ saved = <<>>
    /\ pc \in {"save", "done"} => local_md5 = vcf_shock_file_ref.handle.remote_md5

\* C5 witness: a run that saved its record
C5_Witness ==
    /\ pc = "done"
    /\ saved = <<var>>
    /\ var.numvariants >= 2
    /\ local_md5 = vcf_shock_file_ref.handle.remote_md5

\* C6: cross-validation is advisory: whatever the ids, _validate_assembly_ids
\* and _validate_sample_ids return without raising and import_vcf goes on to
\* the next stage, the construction of the record.
C6_CrossValidationAdvisory ==
    [][/\ pc = "validate_assembly" => (pc' = "validate_sample" /\ error' = NoError)
       /\ pc = "validate_sample" => (pc' = "construct" /\ error' = NoError)]_vars

\* C6 witness: the run is at the construction although a genotype id is unresolved
C6_Witness ==
    /\ pc = "construct"
    /\ ~validate_genotypes.all_found
    /\ error = NoError

\* the first line is absent, does not start with the token, has no '=', or
\* has a non-numeric value after it
FirstLineMalformed ==
    \/ vcf_first_line = <<>>
    \/ ~StartsWith(vcf_first_line, FileformatToken)
    \/ \A i \in 1..Len(vcf_first_line) : vcf_first_line[i] # "="
    \/ \E i \in 1..Len(vcf_first_line) :
          /\ vcf_first_line[i] = "="
          /\ \E j \in (i + 1)..Len(vcf_first_line) :
                vcf_first_line[j] \notin Digits \cup {"."} \cup Whitespace \cup {"V", "C", "F", "v"}

\* C7: when the first line is absent, malformed or does not start with
\* '##fileformat', version detection fails with the format error (ValueError,
\* as for a wrong leading token) and no validator is invoked.
C7_MalformedIsFormatError ==
    (FirstLineMalformed /\ pc # "validate_vcf" /\ error.kind # "OSError")
    => /\ pc = "raised"
       /\ error.kind = "ValueError"
       /\ validator_cmd = <<>>
       /\ p_stdout = <<>>

RECURSIVE SumTotal(_)
SumTotal(cs) == IF cs = <<>> THEN 0 ELSE Head(cs).totalvariants + SumTotal(Tail(cs))

RECURSIVE SumPass(_)
SumPass(cs) == IF cs = <<>> THEN 0 ELSE Head(cs).passvariants + SumPass(Tail(cs))

\* C8: after every record, and in the returned VcfInfo, the totalvariants of
\* all contig entries add up to the running total of records.
C8_TotalsAddUp ==
    /\ SumTotal(contigs) = totalvars
    /\ SumTotal(vcf_info.contigs) = vcf_info.total_variants

\* C8 witness: two contigs seen, one of them twice
C8_Witness ==
    /\ pc = "parse_records"
    /\ Len(contigs) = 2
    /\ totalvars = 3
    /\ SumTotal(contigs) = 3

\* passvariants <= totalvariants in every contig entry
PassWithinTotal(cs) == \A i \in 1..Len(cs) : cs[i].passvariants <= cs[i].totalvariants

\* a step of the record loop raises passvariants only for a record whose FILTER
\* is empty, only in that record's contig, and by one
PassOnlyByEmptyFilter ==
    (pc = "parse_records" /\ pc' = "parse_records")
    => /\ SumPass(contigs') >= SumPass(contigs)
       /\ SumPass(contigs') > SumPass(contigs) =>
            /\ FilterEmpty(record')
            /\ SumPass(contigs') = SumPass(contigs) + 1
            /\ \A i \in 1..Len(contigs) :
                  contigs'[i].contig_id # record'.CHROM
                  => contigs'[i].passvariants = contigs[i].passvariants

\* C9: while streaming, every contig entry has passvariants <= totalvariants,
\* and passvariants is incremented only by records whose FILTER is empty.
C9_PassWithinTotal ==
    /\ [](PassWithinTotal(contigs) /\ PassWithinTotal(vcf_info.contigs))
    /\ [][PassOnlyByEmptyFilter]_vars

\* C9 witness: a contig with a filtered and a passed record
C9_Witness ==
    /\ pc = "parse_records"
    /\ \E i \in 1..Len(contigs) : contigs[i].totalvariants = 2 /\ contigs[i].passvariants = 1
    /\ \E i \in 1..Len(contigs) : contigs[i].passvariants = 0

\* C10: when validator A was dispatched (version >= 4.1), validate_vcf returns
\* normally only if the retained output carried the status token 'isvalid' and
\* the report it names exists; the synthesized 'validated as of spec v4.0'
\* report is not what it returns, in particular not for an empty retained output.
C10_SilentSuccessOnlyForB ==
    (Returned /\ validator_cmd = ValidatorA)
    => /\ vcf_version >= 4100
       /\ validator_output # <<>>
       /\ ShapeA
       /\ StatusToken(validator_output) = IsValid
       /\ Exists(files, NamedReport(validator_output))
       /\ file_valid_result = NamedReport(validator_output)
       /\ files[file_valid_result].kind # "validated as of spec v4.0"

\* the file declares one of the supported versions 4.0, 4.1, 4.2, 4.3
DeclaresSupported ==
    vcf_first_line \in { Line(<<"V","C","F","v","4",".","0">>), Line(<<"V","C","F","v","4",".","1">>),
                         Line(<<"V","C","F","v","4",".","2">>), Line(<<"V","C","F","v","4",".","3">>) }

\* C11: for every supported declared version (4.0, 4.1, 4.2, 4.3) the version
\* _parse_vcf_data reads, and stores in VcfInfo, equals the decimal version
\* _get_vcf_version detects for the same file.
C11_ParsedVersionIsDetected ==
    DeclaresSupported
    => /\ pc = "parse_records" => version = GetVcfVersion(vcf_first_line).version
       /\ vcf_info.version # NoVersion =>
            vcf_info.version = GetVcfVersion(vcf_first_line).version

====
